---- MODULE Spec2Model ----
(***************************************************************************)
(* A model of src/mysql.js: the MySQL class that wraps a driver pool.      *)
(* The driver (pool, connections) is the environment: it answers each      *)
(* command the class issues with one of the outcomes its callback          *)
(* signature allows.  The caller is the environment too: it starts the     *)
(* public methods one call at a time (calls share no state but the pool    *)
(* and the connections), and supplies only connections it was handed and   *)
(* that are still leased.                                                  *)
(***************************************************************************)
EXTENDS Integers, Sequences, FiniteSets

\* ---------------------------------------------------------------- bounds
NumConns == 1
MaxPools == 3
MaxPending == 1
MaxFailures == 2

Conns == 1..NumConns
Pools == 1..MaxPools

\* ---------------------------------------------------------------- values
\* JavaScript null / undefined / false for a connection or a pool handle.
Null == 0
\* JavaScript false as a value handed to a callback.
JSFalse == -1

NoErr == "null"
PoolErr == "ER_POOL"
QueryErr == "ER_QUERY"
BeginErr == "ER_BEGIN"
CommitErr == "ER_COMMIT"
\* The string getConnection reports when the pool gave neither error nor connection.
NoConnErr == "Failed to obtain a MySQL connection."

ConnectionLost == "PROTOCOL_CONNECTION_LOST"
OtherPoolCode == "ER_OTHER"
PoolErrorCodes == {ConnectionLost, OtherPoolCode}

\* Values a caller may pass as config.
ConfigValues == {"plain object", "null", "string", "number", "undefined"}
\* No constructor is running.
NoConfig == "none"

\* Driver result data of a query: NoData is undefined, SomeData is a result
\* object (rows for a select, metadata for an insert or update).
NoData == 0
SomeData == 1
DataIds == {NoData, SomeData}
InsertIdField(d) == 42
AffectedRowsField(d) == 3

VARIABLES
    inst,        \* "new", "ready" (constructed), "threw" (line 13), "driver threw" (line 21)
    _pool,       \* this._pool: the current pool handle, Null before construction
    poolCount,   \* pools created so far by mysql.createPool
    observed,    \* the pools an error observer is registered on
    connPool,    \* connPool[c]: the pool that created connection c, Null if none yet
    leased,      \* leased[c]: c is out of its pool (acquired, not released)
    pendingRb,   \* pendingRb[c]: rollback commands issued on c and not yet completed
    call,        \* the call of a public method in flight, and where it stands
    trace,       \* the driver commands and callbacks the call has made, in order
    cb,          \* the arguments of each invocation of the call's callback
    held,        \* connections the caller was handed and that are still leased
    txn,         \* txn[c]: "none", "active" (begun), "ended" (caller committed / rolled back)
    console,     \* the lines the running handler has written to console.error
    event,       \* the pool error the running observer was called with
    ctorConfig,  \* the config the running constructor was called with
    txnRun       \* the latest calls, if they were statements with trans = true on
                 \* one supplied connection: how many failed, how many
                 \* rollbacks they issued, whether one of them released it

vars == <<inst, _pool, poolCount, observed, connPool, leased, pendingRb, call, trace,
          cb, held, txn, console, event, txnRun, ctorConfig>>

\* op: the method; pc: the driver command it waits for; conn, trans, iar: its
\* arguments; pool: the pool its getConnection went to; c: the connection it
\* works on; issuer: the pool c was leased from; perr: the error the pool
\* answered with; err: the error of the driver's last answer; data: the
\* data of the query's answer.
IdleCall == [op |-> "idle", pc |-> "idle", conn |-> Null, trans |-> FALSE,
             iar |-> FALSE, pool |-> Null, c |-> Null, issuer |-> Null,
             perr |-> NoErr, err |-> NoErr, data |-> NoData]

Ev(e, c) == [e |-> e, c |-> c]
CbEv == Ev("callback", Null)
CbArgs(err, args) == [err |-> err, args |-> args]

\* A handler that invoked the caller's callback, wrote a log line or threw has
\* not returned yet: JavaScript runs it to completion before anything else.
Running ==
    \/ console # <<>>
    \/ event # <<>>
    \/ call.pc \in {"done", "threw"}
    \/ ctorConfig # NoConfig

\* The caller makes its calls one at a time: the next when the last is over.
NextCall ==
    /\ inst = "ready"
    /\ ~Running
    /\ call.op = "idle"

\* No statement with trans = true on a supplied connection has been made.
NoRun == [c |-> Null, failed |-> 0, rolled |-> 0, released |-> FALSE]

\* Connections the caller may pass as the conn argument of a call.
Suppliable == held

Init ==
    /\ inst = "new"
    /\ _pool = Null
    /\ poolCount = 0
    /\ observed = {}
    /\ connPool = [c \in Conns |-> Null]
    /\ leased = [c \in Conns |-> FALSE]
    /\ pendingRb = [c \in Conns |-> 0]
    /\ call = IdleCall
    /\ trace = <<>>
    /\ cb = <<>>
    /\ held = {}
    /\ txn = [c \in Conns |-> "none"]
    /\ console = <<>>
    /\ event = <<>>
    /\ txnRun = NoRun
    /\ ctorConfig = NoConfig

\* ------------------------------------------------------- shared bookkeeping
\* The call is a select, insert or update with trans = true on a supplied
\* connection.
InRun(c) == c.op \in {"select", "insert", "update"} /\ c.conn # Null /\ c.trans

\* A bug: a release hands the connection to the current pool,
\* this._pool.releaseConnection(conn).
ReleaseToCurrentPool(from) == _pool

\* conn.release() (lines 40, 108, 144, 180, 227, 278) is the connection's own
\* method: it returns the connection to the pool it was leased from, whatever
\* this._pool is by then.
ReleaseTarget(from) == from

\* What one step of the call does to the state: its new record, the commands
\* and callbacks it adds to its trace, the connection the pool hands out
\* (lease), the connections released (rel), the connections a rollback is
\* issued on (rbs), the connections the caller is handed (got), and the
\* transactions that begin (began) or that the caller ends (ended).
\* A connection the pool hands out is one of the pool that was asked.
Step(next, evs, cbs, lease, rel, rbs, got, began, ended) ==
    /\ call' = next
    /\ txnRun' = IF InRun(next)
                   THEN IF next.pc = "done"
                          THEN [txnRun EXCEPT
                                  !.failed = @ + (IF next.err # NoErr THEN 1 ELSE 0),
                                  !.rolled = @ + (IF next.conn \in rbs THEN 1 ELSE 0),
                                  !.released = @ \/ next.conn \in rel]
                          ELSE txnRun
                 ELSE NoRun
    /\ connPool' = [c \in Conns |->
                      LET from == IF c \in lease THEN next.pool ELSE connPool[c]
                      IN  IF c \in rel THEN ReleaseTarget(from) ELSE from]
    /\ trace' = trace \o evs
    /\ cb' = cb \o cbs
    /\ leased' = [c \in Conns |-> IF c \in rel THEN FALSE
                                 ELSE IF c \in lease THEN TRUE ELSE leased[c]]
    /\ pendingRb' = [c \in Conns |-> IF c \in rbs THEN pendingRb[c] + 1 ELSE pendingRb[c]]
    /\ held' = (held \ rel) \cup (got \ rel)
    /\ txn' = [c \in Conns |-> IF c \in rel THEN "none"
                              ELSE IF c \in began THEN "active"
                              ELSE IF c \in ended THEN "ended" ELSE txn[c]]

\* ------------------------------------------------------------ constructor
\* typeof config
TypeOf(config) ==
    CASE config = "plain object" -> "object"
      [] config = "null" -> "object"
      [] config = "string" -> "string"
      [] config = "number" -> "number"
      [] OTHER -> "undefined"

\* constructor, line 12: the configuration is accepted.
ConfigAccepted(config) == TypeOf(config) = "object"

\* A bug: the new pool gets no error observer.
CreatesPoolUnobserved ==
    /\ poolCount < MaxPools
    /\ poolCount' = poolCount + 1
    /\ _pool' = poolCount + 1
    /\ observed' = observed

\* _handleDisconnect, lines 20-29: a new pool replaces this._pool and gets an
\* error observer.
HandleDisconnect ==
    /\ poolCount < MaxPools
    /\ poolCount' = poolCount + 1
    /\ _pool' = poolCount + 1
    /\ observed' = observed \cup {poolCount + 1}

\* mysql.createPool(config), line 21: the driver returns a pool (TRUE) or
\* throws (FALSE).  It returns one for a configuration object; what it does
\* with null is the driver's business, and either outcome is allowed for.
CreatePoolOutcomes(config) ==
    IF config = "plain object" THEN {TRUE} ELSE BOOLEAN

\* new MySQL(config), lines 9-65: the typeof test, then _handleDisconnect().
Construct(config) ==
    /\ inst = "new"
    /\ ctorConfig' = config
    /\ IF ConfigAccepted(config)
         THEN \E created \in CreatePoolOutcomes(config) :
                 IF created
                   THEN /\ HandleDisconnect
                        /\ inst' = "ready"
                   ELSE /\ inst' = "driver threw"
                        /\ UNCHANGED <<_pool, poolCount, observed>>
         ELSE /\ inst' = "threw"
              /\ UNCHANGED <<_pool, poolCount, observed>>
    /\ UNCHANGED <<connPool, leased, pendingRb, call, trace, cb, held, txn, console, event,
                   txnRun>>

\* The constructor returns, or its exception leaves it.
ConstructorReturns ==
    /\ ctorConfig # NoConfig
    /\ ctorConfig' = NoConfig
    /\ UNCHANGED <<inst, _pool, poolCount, observed, connPool, leased, pendingRb, call, trace,
                   cb, held, txn, console, event, txnRun>>

\* A bug: the observer rebuilds on every error.
RebuildsOnAny(code) == TRUE

\* The observer registered on a pool rebuilds on this error code (line 23).
RebuildsOn(code) == code = ConnectionLost

\* The observer logs the error (lines 25-27, the else branch).
ObserverLogs(code) == code # ConnectionLost

\* The observer registered on pool p receives an error with this code; event
\* keeps what it was called with, and the pool handle and the pools at that time.
PoolError(p, code) ==
    /\ inst = "ready"
    /\ ~Running
    /\ p \in observed
    /\ event' = <<[pool |-> p, code |-> code, current |-> _pool, count |-> poolCount]>>
    /\ IF RebuildsOn(code)
         THEN HandleDisconnect
         ELSE UNCHANGED <<_pool, poolCount, observed>>
    /\ console' = IF ObserverLogs(code) THEN <<code>> ELSE <<>>
    /\ UNCHANGED <<inst, connPool, leased, pendingRb, call, trace, cb, held, txn, txnRun, ctorConfig>>

\* The pool's error observer returns.
ObserverReturns ==
    /\ event # <<>>
    /\ event' = <<>>
    /\ console' = <<>>
    /\ UNCHANGED <<inst, _pool, poolCount, observed, connPool, leased, pendingRb, call,
                   trace, cb, held, txn, txnRun, ctorConfig>>

\* --------------------------------------------------------- the driver's pool
\* What pool p may answer to getConnection: <<err, connection>>.
\* The connection is an idle one of p or a new one (the first unused id).
PoolAnswers(p) ==
    LET free == {c \in Conns : ~leased[c] /\ connPool[c] \in {p, Null}}
        pick == {c \in free : \A d \in free : c <= d}
    IN  ({NoErr} \X pick) \cup ({PoolErr} \X pick) \cup {<<PoolErr, Null>>, <<NoErr, Null>>}

\* ------------------------------------------------- the decisions of the code
\* A bug: the connection delivered with an error is not released.
KeepsConnOnError(err, connection) == FALSE

\* _getConnection, lines 38-42: the connection is released before the callback.
GetConnReleases(err, connection) == err # NoErr /\ connection # Null

\* getConnection, lines 80-92: the arguments its callback receives.
GetConnectionResult(err, conn) ==
    IF err # NoErr THEN CbArgs(err, <<>>)
    ELSE IF conn = Null THEN CbArgs(NoConnErr, <<>>)
    ELSE CbArgs(NoErr, <<conn>>)

\* A bug: the rollback does not look at trans.
RollsBackAnyConn(trans, conn) == conn # Null

\* A bug: the failure is passed on without a rollback.
RollsBackNever(trans, conn) == FALSE

\* _handleError, line 57: a rollback is issued on conn.
HandleErrorRollsBack(trans, conn) == trans /\ conn # Null

\* A bug: the connection is released whatever trans is.
ReleasesAlways(trans, err) == TRUE

\* A bug: the release is skipped when the query failed.
ReleasesOnSuccessOnly(trans, err) == ~trans /\ err = NoErr

\* select / insert / update, lines 180, 227, 278: release after the query;
\* the test reads trans alone, whatever the query's err.
ReleasesAfterQuery(trans, err) == ~trans

\* beginTransaction, lines 143-145: release after the begin command.
ReleasesAfterBegin(err) == err # NoErr

\* beginTransaction, line 147: the arguments its callback receives.
BeginResult(err, conn) == CbArgs(err, <<conn>>)

\* commitConnection, lines 102-106: a rollback is issued after the commit.
CommitRollsBack(err) == err # NoErr

\* A bug: the release is skipped when the commit failed.
ReleasesOnCommitSuccess(err) == err = NoErr

\* commitConnection, line 108: the connection is released after the commit,
\* whatever its err.
CommitReleases(err) == TRUE

\* A bug: rollback issues nothing.
RollbackNever(conn) == FALSE

\* rollback, line 121: a rollback is issued on conn.
RollbackIssues(conn) == conn # Null

\* The final callbacks of select, insert, update on success (lines 193, 240-244, 291-295).
SelectResult(rows) == CbArgs(NoErr, <<rows>>)
InsertId(data) == IF data # NoData THEN InsertIdField(data) ELSE JSFalse
AffectedRows(data) == IF data # NoData THEN AffectedRowsField(data) ELSE JSFalse
\* A bug: insert hands over the affected rows whatever includeAffectedRows is.
InsertResultAlwaysPair(data, includeAffectedRows) ==
    CbArgs(NoErr, <<InsertId(data), AffectedRows(data)>>)

\* A bug: update hands over the affected rows whatever includeAffectedRows is.
UpdateResultAlwaysRows(data, includeAffectedRows) ==
    CbArgs(NoErr, <<AffectedRows(data)>>)

InsertResult(data, includeAffectedRows) ==
    IF includeAffectedRows THEN CbArgs(NoErr, <<InsertId(data), AffectedRows(data)>>)
    ELSE CbArgs(NoErr, <<InsertId(data)>>)
UpdateResult(data, includeAffectedRows) ==
    IF includeAffectedRows THEN CbArgs(NoErr, <<AffectedRows(data)>>)
    ELSE CbArgs(NoErr, <<>>)

\* The final callback of the waterfall on error (lines 188-191, 235-238, 286-289):
\* _handleError is given the method's own conn argument.
QueryFailure(next, err, evs, lease, rel) ==
    LET rb == HandleErrorRollsBack(next.trans, next.conn)
    IN  /\ rb => pendingRb[next.conn] < MaxPending
        /\ Step([next EXCEPT !.pc = "done"],
                evs \o (IF rb THEN <<Ev("rollback", next.conn)>> ELSE <<>>) \o <<CbEv>>,
                <<CbArgs(err, <<>>)>>,
                lease, rel, IF rb THEN {next.conn} ELSE {}, {}, {}, {})

\* ------------------------------------------------------------ public methods
\* this._pool.getConnection(...) is issued on the current pool (line 37).
Acquire(op, trans, iar) ==
    /\ call' = [IdleCall EXCEPT !.op = op, !.pc = "acquire", !.trans = trans,
                                !.iar = iar, !.pool = _pool]
    /\ trace' = <<Ev("getConnection", Null)>>
    /\ txnRun' = NoRun
    /\ UNCHANGED <<inst, _pool, poolCount, observed, connPool, leased, pendingRb, cb, held, txn,
                   console, event, ctorConfig>>

\* getConnection(callback), lines 79-80.
GetConnection ==
    /\ NextCall
    /\ Acquire("getConnection", FALSE, FALSE)

\* beginTransaction(callback), lines 135-136.
BeginTransaction ==
    /\ NextCall
    /\ Acquire("beginTransaction", FALSE, FALSE)

\* The first task of the waterfall (lines 166-173, 212-219, 263-270): with a
\* conn the query is issued on it at once, without one getConnection is called.
Statement(op, conn, trans, iar) ==
    /\ NextCall
    /\ conn \in Suppliable \cup {Null}
    /\ IF conn # Null
         THEN /\ call' = [IdleCall EXCEPT !.op = op, !.pc = "query", !.conn = conn,
                                          !.trans = trans, !.iar = iar, !.c = conn,
                                          !.issuer = connPool[conn]]
              /\ trace' = <<Ev("query", conn)>>
              /\ txnRun' = IF ~trans THEN NoRun
                            ELSE IF txnRun.c = conn /\ txnRun.failed < MaxFailures
                              THEN txnRun
                              ELSE [NoRun EXCEPT !.c = conn]
              /\ UNCHANGED <<inst, _pool, poolCount, observed, connPool, leased, pendingRb, cb,
                             held, txn, console, event, ctorConfig>>
         ELSE Acquire(op, trans, iar)

\* select(sql, params, conn, trans, callback)
Select(conn, trans) == Statement("select", conn, trans, FALSE)

\* insert(sql, params, conn, trans, callback, includeAffectedRows)
Insert(conn, trans, includeAffectedRows) ==
    Statement("insert", conn, trans, includeAffectedRows)

\* update(sql, params, conn, trans, callback, includeAffectedRows)
Update(conn, trans, includeAffectedRows) ==
    Statement("update", conn, trans, includeAffectedRows)

\* The pool answers the call's getConnection: _getConnection's callback
\* (lines 38-44) and then the callback of the method that asked.
GetConnectionReply(err, conn) ==
    LET answered == [call EXCEPT !.c = conn, !.perr = err, !.err = err,
                                 !.issuer = IF conn # Null THEN call.pool ELSE Null]
        rel == IF GetConnReleases(err, conn) THEN {conn} ELSE {}
        relEv == IF GetConnReleases(err, conn) THEN <<Ev("release", conn)>> ELSE <<>>
        lease == IF conn # Null THEN {conn} ELSE {}
        pub == GetConnectionResult(err, conn)
    IN  /\ call.pc = "acquire"
        /\ ~Running
        /\ <<err, conn>> \in PoolAnswers(call.pool)
        /\ UNCHANGED <<inst, _pool, poolCount, observed, console, event, ctorConfig>>
        /\ CASE call.op = "getConnection" ->
                  Step([answered EXCEPT !.pc = "done"], relEv \o <<CbEv>>,
                       <<pub>>, lease, rel, {},
                       IF Len(pub.args) > 0 THEN {pub.args[1]} ELSE {}, {}, {})
             [] call.op = "beginTransaction" ->
                  \* lines 137-142: only err is tested before conn.beginTransaction
                  IF err # NoErr
                    THEN Step([answered EXCEPT !.pc = "done"],
                              relEv \o <<CbEv>>, <<CbArgs(err, <<>>)>>,
                              lease, rel, {}, {}, {}, {})
                  ELSE IF conn = Null
                    THEN Step([answered EXCEPT !.pc = "threw"], <<Ev("TypeError", Null)>>,
                              <<>>, {}, {}, {}, {}, {}, {})
                    ELSE Step([answered EXCEPT !.pc = "begin"],
                              <<Ev("begin", conn)>>, <<>>, lease, {}, {}, {}, {}, {})
             [] OTHER ->
                  \* select, insert, update: next is getConnection's callback
                  IF pub.err # NoErr
                    THEN QueryFailure(answered, pub.err, relEv, lease, rel)
                    ELSE Step([answered EXCEPT !.pc = "query"],
                              <<Ev("query", conn)>>, <<>>, lease, {}, {}, {}, {}, {})

\* The driver answers the call's conn.beginTransaction (lines 142-148).
BeginReply(err) ==
    LET r == ReleasesAfterBegin(err)
        res == BeginResult(err, call.c)
    IN  /\ call.pc = "begin"
        /\ ~Running
        /\ Step([call EXCEPT !.pc = "done", !.err = err],
                (IF r THEN <<Ev("release", call.c)>> ELSE <<>>) \o <<CbEv>>,
                <<res>>, {}, IF r THEN {call.c} ELSE {}, {},
                IF Len(res.args) > 0 THEN {res.args[1]} ELSE {},
                IF err = NoErr THEN {call.c} ELSE {}, {})
        /\ UNCHANGED <<inst, _pool, poolCount, observed, console, event, ctorConfig>>

\* The driver answers the call's conn.query (lines 179-185, 226-232, 277-283)
\* and the waterfall's final callback runs.
QueryReply(err, data) ==
    LET answered == [call EXCEPT !.err = err, !.data = data]
        r == ReleasesAfterQuery(call.trans, err)
        rel == IF r THEN {call.c} ELSE {}
        relEv == IF r THEN <<Ev("release", call.c)>> ELSE <<>>
        res == CASE call.op = "select" -> SelectResult(data)
                 [] call.op = "insert" -> InsertResult(data, call.iar)
                 [] OTHER -> UpdateResult(data, call.iar)
    IN  /\ call.pc = "query"
        /\ ~Running
        /\ err # NoErr => data = NoData
        /\ UNCHANGED <<inst, _pool, poolCount, observed, console, event, ctorConfig>>
        /\ IF err # NoErr
             THEN QueryFailure(answered, err, relEv, {}, rel)
             ELSE Step([answered EXCEPT !.pc = "done"], relEv \o <<CbEv>>, <<res>>,
                       {}, rel, {}, {}, {}, {})

\* commitConnection(conn), lines 100-101: conn.commit is issued.
CommitConnection(conn) ==
    /\ NextCall
    /\ conn \in Suppliable
    /\ call' = [IdleCall EXCEPT !.op = "commitConnection", !.pc = "commit",
                                !.conn = conn, !.c = conn, !.issuer = connPool[conn]]
    /\ trace' = <<Ev("commit", conn)>>
    /\ txn' = [txn EXCEPT ![conn] = "ended"]
    /\ txnRun' = NoRun
    /\ UNCHANGED <<inst, _pool, poolCount, observed, connPool, leased, pendingRb, cb, held,
                   console, event, ctorConfig>>

\* The driver answers the call's conn.commit (lines 101-109).
CommitReply(err) ==
    LET rb == CommitRollsBack(err)
        r == CommitReleases(err)
    IN  /\ call.pc = "commit"
        /\ ~Running
        /\ rb => pendingRb[call.c] < MaxPending
        /\ Step([call EXCEPT !.pc = "done", !.err = err],
                (IF rb THEN <<Ev("rollback", call.c)>> ELSE <<>>)
                    \o (IF r THEN <<Ev("release", call.c)>> ELSE <<>>),
                <<>>, {}, IF r THEN {call.c} ELSE {}, IF rb THEN {call.c} ELSE {},
                {}, {}, {})
        /\ UNCHANGED <<inst, _pool, poolCount, observed, console, event, ctorConfig>>

\* rollback(conn, err), lines 120-128: synchronous, no callback.
Rollback(conn) ==
    LET rb == RollbackIssues(conn)
    IN  /\ NextCall
        /\ conn \in Suppliable \cup {Null}
        /\ rb => pendingRb[conn] < MaxPending
        /\ Step([IdleCall EXCEPT !.op = "rollback", !.pc = "done", !.conn = conn,
                                 !.c = conn,
                                 !.issuer = IF conn # Null THEN connPool[conn] ELSE Null],
                IF rb THEN <<Ev("rollback", conn)>> ELSE <<>>, <<>>,
                {}, {}, IF rb THEN {conn} ELSE {}, {}, {},
                IF conn # Null THEN {conn} ELSE {})
        /\ UNCHANGED <<inst, _pool, poolCount, observed, console, event, ctorConfig>>

\* The driver completes a rollback on c; its callback logs (lines 103-105, 122-124).
RollbackDone(c) ==
    /\ ~Running
    /\ pendingRb[c] > 0
    /\ pendingRb' = [pendingRb EXCEPT ![c] = @ - 1]
    /\ console' = <<"Transaction failed, rolling back connection...">>
    /\ UNCHANGED <<inst, _pool, poolCount, observed, connPool, leased, call, trace, cb, held,
                   txn, event, txnRun, ctorConfig>>

\* The caller's own cleanup: it releases a connection it holds.
CallerRelease(c) ==
    /\ NextCall
    /\ c \in Suppliable
    /\ leased' = [leased EXCEPT ![c] = FALSE]
    /\ held' = held \ {c}
    /\ txn' = [txn EXCEPT ![c] = "none"]
    /\ txnRun' = IF txnRun.c = c THEN NoRun ELSE txnRun
    /\ UNCHANGED <<inst, _pool, poolCount, observed, connPool, pendingRb, call, trace, cb,
                   console, event, ctorConfig>>

\* The handler that completed the call returns; the call is over.
Return ==
    /\ call.pc = "done"
    /\ call' = IdleCall
    /\ trace' = <<>>
    /\ cb' = <<>>
    /\ UNCHANGED <<inst, _pool, poolCount, observed, connPool, leased, pendingRb, held, txn, console, event, txnRun, ctorConfig>>

\* A rollback's callback, which only logged, returns.
Logged ==
    /\ console # <<>>
    /\ event = <<>>
    /\ console' = <<>>
    /\ UNCHANGED <<inst, _pool, poolCount, observed, connPool, leased, pendingRb, call,
                   trace, cb, held, txn, event, txnRun, ctorConfig>>

Next ==
    \/ \E config \in ConfigValues : Construct(config)
    \/ ConstructorReturns
    \/ \E p \in Pools, code \in PoolErrorCodes : PoolError(p, code)
    \/ ObserverReturns
    \/ GetConnection
    \/ BeginTransaction
    \/ \E conn \in Conns \cup {Null}, trans \in BOOLEAN : Select(conn, trans)
    \/ \E conn \in Conns \cup {Null}, trans \in BOOLEAN, iar \in BOOLEAN :
          Insert(conn, trans, iar)
    \/ \E conn \in Conns \cup {Null}, trans \in BOOLEAN, iar \in BOOLEAN :
          Update(conn, trans, iar)
    \/ \E conn \in Conns : CommitConnection(conn)
    \/ \E conn \in Conns \cup {Null} : Rollback(conn)
    \/ \E err \in {NoErr, PoolErr}, conn \in Conns \cup {Null} :
          GetConnectionReply(err, conn)
    \/ \E err \in {NoErr, BeginErr} : BeginReply(err)
    \/ \E err \in {NoErr, QueryErr}, data \in DataIds : QueryReply(err, data)
    \/ \E err \in {NoErr, CommitErr} : CommitReply(err)
    \/ \E c \in Conns : RollbackDone(c)
    \/ \E c \in Conns : CallerRelease(c)
    \/ Return
    \/ Logged

Spec == Init /\ [][Next]_vars

\* ------------------------------------------------------------------ claims
\* The call is over: its callback, if it has one, has run (pc = "done"), or the
\* handler threw (pc = "threw").
Done == call.pc = "done"
Over == call.pc \in {"done", "threw"}
IsStatement == call.op \in {"select", "insert", "update"}
SelfAcquiring == call.op = "beginTransaction" \/ (IsStatement /\ call.conn = Null)

\* How often the call issued command e on connection c, and on any connection.
CountOn(e, c) == Cardinality({k \in 1..Len(trace) : trace[k] = Ev(e, c)})
Count(e) == Cardinality({k \in 1..Len(trace) : trace[k].e = e})
\* The place of the first e in the trace, 0 if there is none.
First(e) ==
    IF Count(e) = 0 THEN 0
    ELSE CHOOSE k \in 1..Len(trace) :
            /\ trace[k].e = e
            /\ \A j \in 1..(k - 1) : trace[j].e # e
Before(e, f) == First(e) > 0 /\ First(f) > 0 /\ First(e) < First(f)

\* C1: a select, insert or update without a supplied connection has released
\* the connection it acquired when its callback has fired, whatever trans is.
C1_AcquiredIsReleased ==
    (Done /\ IsStatement /\ call.conn = Null /\ call.c # Null) => ~leased[call.c]

\* C2, as stated: a select, insert or update with a supplied connection asks
\* the pool for nothing and never releases the connection, whatever trans is.
C2_SuppliedNeverReleased ==
    (Done /\ IsStatement /\ call.conn # Null) =>
        /\ Count("getConnection") = 0
        /\ Count("release") = 0
        /\ leased[call.conn]

\* C2, amended: with a supplied connection the call asks the pool for nothing;
\* with trans = true it never releases the connection, which stays leased; with
\* trans = false it releases the connection exactly once, before its callback.
C2_SuppliedReleasedUnlessTrans ==
    (Done /\ IsStatement /\ call.conn # Null) =>
        /\ Count("getConnection") = 0
        /\ call.trans => (Count("release") = 0 /\ leased[call.conn])
        /\ ~call.trans => /\ Count("release") = 1
                          /\ CountOn("release", call.conn) = 1
                          /\ Before("release", "callback")
                          /\ ~leased[call.conn]

C2_Witness ==
    /\ Done /\ IsStatement /\ call.conn # Null /\ ~call.trans
    /\ call.err = QueryErr
    /\ ~leased[call.conn]

\* C3: a select, insert or update without a supplied connection and with
\* trans = false releases the connection it acquired exactly once, after the
\* statement and before the caller's callback, on success and on error.
C3_ReleasedOnceBeforeCallback ==
    (Done /\ IsStatement /\ call.conn = Null /\ ~call.trans /\ call.c # Null) =>
        /\ Count("release") = 1
        /\ CountOn("release", call.c) = 1
        /\ Count("callback") = 1
        /\ Before("release", "callback")
        /\ Count("query") > 0 => Before("query", "release")
        /\ ~leased[call.c]

C3_Witness ==
    /\ Done /\ IsStatement /\ call.conn = Null /\ ~call.trans /\ call.c # Null
    /\ call.err = QueryErr
    /\ trace = <<Ev("getConnection", Null), Ev("query", call.c), Ev("release", call.c), CbEv>>

\* C4: a failing statement with trans = true and a supplied connection issues
\* exactly one rollback, on that connection, before the callback gets the
\* error; a failing statement with trans = false issues no rollback.
C4_RollbackOnFailure ==
    (Done /\ IsStatement /\ call.err = QueryErr) =>
        /\ cb = <<CbArgs(QueryErr, <<>>)>>
        /\ (call.trans /\ call.conn # Null) =>
              /\ Count("rollback") = 1
              /\ CountOn("rollback", call.conn) = 1
              /\ Before("rollback", "callback")
        /\ ~call.trans => Count("rollback") = 0

C4_Witness ==
    /\ Done /\ IsStatement /\ call.err = QueryErr /\ call.trans /\ call.conn # Null
    /\ trace = <<Ev("query", call.conn), Ev("rollback", call.conn), CbEv>>

\* C5: when the begin command fails, beginTransaction releases the connection
\* exactly once before the callback, and the callback gets the error and no
\* connection.
C5_BeginFailureHandsNoConnection ==
    (Done /\ call.op = "beginTransaction" /\ call.err = BeginErr) =>
        /\ CountOn("release", call.c) = 1
        /\ Before("release", "callback")
        /\ cb = <<CbArgs(BeginErr, <<>>)>>

\* C6: commitConnection releases conn exactly once whether the commit succeeds
\* or fails, issues exactly one rollback on conn when it fails and none when it
\* succeeds, and delivers no error to the caller.
C6_CommitReleasesOnce ==
    (Done /\ call.op = "commitConnection") =>
        /\ Count("release") = 1
        /\ CountOn("release", call.conn) = 1
        /\ ~leased[call.conn]
        /\ call.err # NoErr => (Count("rollback") = 1 /\ CountOn("rollback", call.conn) = 1)
        /\ call.err = NoErr => Count("rollback") = 0
        /\ cb = <<>>

C6_Witness ==
    /\ Done /\ call.op = "commitConnection" /\ call.err = CommitErr
    /\ trace = <<Ev("commit", call.conn), Ev("rollback", call.conn),
                 Ev("release", call.conn)>>

\* C7: when no call is in flight and every transaction a beginTransaction
\* opened has been ended by the caller with commitConnection or rollback, no
\* connection is leased (but for plain connections of getConnection that the
\* caller still holds).
C7_NoLeak ==
    (call.op = "idle" /\ \A c \in Conns : txn[c] # "active") =>
        \A c \in Conns : leased[c] => (c \in held /\ txn[c] = "none")

\* C8: each getConnection, beginTransaction, select, insert or update invokes
\* the caller's callback exactly once, with an error or with a result, never
\* with both.
C8_OneCallbackErrorOrResult ==
    (Over /\ call.op \in {"getConnection", "beginTransaction", "select", "insert", "update"}) =>
        /\ Len(cb) = 1
        /\ ~(cb[1].err # NoErr /\ cb[1].args # <<>>)

\* C9: when the pool reports an error getConnection completes with that error
\* and hands over no connection, having released the connection delivered with
\* the error, if any; when the pool reports neither error nor connection it
\* completes with the distinct connection-unavailable error.
C9_GetConnectionFailures ==
    (Done /\ call.op = "getConnection") =>
        /\ call.perr # NoErr =>
              /\ cb = <<CbArgs(call.perr, <<>>)>>
              /\ call.c # Null => /\ CountOn("release", call.c) = 1
                                  /\ Before("release", "callback")
                                  /\ ~leased[call.c]
                                  /\ call.c \notin held
        /\ (call.perr = NoErr /\ call.c = Null) =>
              /\ cb = <<CbArgs(NoConnErr, <<>>)>>
              /\ NoConnErr # PoolErr

C9_Witness ==
    /\ Done /\ call.op = "getConnection" /\ call.perr = PoolErr /\ call.c # Null
    /\ trace = <<Ev("getConnection", Null), Ev("release", call.c), CbEv>>

\* C10: when acquisition fails (the pool reports an error, or neither error
\* nor connection) a call that acquires its own connection reports an error
\* through the callback and issues no begin, query or rollback, and no release
\* (of a connection it holds: the one the pool delivers with an error is
\* released, as C9 has it).
AcquisitionFailed == SelfAcquiring /\ (call.perr # NoErr \/ call.c = Null)

C10_AcquisitionFailureReported ==
    (Over /\ AcquisitionFailed) =>
        /\ Len(cb) = 1
        /\ cb[1].err # NoErr
        /\ cb[1].args = <<>>
        /\ Count("begin") = 0 /\ Count("query") = 0 /\ Count("rollback") = 0
        /\ call.c = Null => Count("release") = 0

\* C11: once the constructor has succeeded, and after any number of
\* connection-lost signals, the manager has exactly one pool handle: the pool
\* built last, which has an error observer registered on it; and every
\* acquisition a call starts is directed at the pool that is current then.
C11_OneObservedCurrentPool ==
    [][/\ inst' = "ready" =>
              /\ _pool' \in 1..poolCount'
              /\ _pool' = poolCount'
              /\ _pool' \in observed'
       /\ (call'.pc = "acquire" /\ call.pc # "acquire") =>
              /\ call'.pool = _pool'
              /\ trace' = <<Ev("getConnection", Null)>>
       /\ (call.pc = "acquire" /\ call'.pc # "acquire" /\ call'.c # Null) =>
              connPool'[call'.c] = call.pool]_vars

C11_Witness ==
    /\ inst = "ready"
    /\ poolCount >= 2
    /\ event = <<>>
    /\ call.pc = "acquire"
    /\ call.pool = _pool
    /\ _pool = poolCount
    /\ _pool \in observed

\* The step in which an error observer is called.
ObserverCalled == event = <<>> /\ event' # <<>>

\* C12: a pool error whose code is not the connection-lost code leaves the
\* pool handle as it was: no pool is created, no observer is added, the call in
\* flight and its callbacks are untouched, and the observer returns with the
\* same handle, so that the next acquisition uses the same pool as before.
C12_OtherErrorKeepsPool ==
    [][/\ (ObserverCalled /\ event'[1].code # ConnectionLost) =>
              /\ _pool' = _pool
              /\ poolCount' = poolCount
              /\ observed' = observed
              /\ call' = call /\ cb' = cb /\ trace' = trace
              /\ console' = <<event'[1].code>>
       /\ (event # <<>> /\ event[1].code # ConnectionLost) =>
              /\ _pool' = event[1].current
              /\ poolCount' = event[1].count
              /\ cb' = cb]_vars

C12_Witness ==
    /\ event # <<>>
    /\ event[1].code = OtherPoolCode
    /\ event[1].pool = _pool
    /\ call.pc = "query"
    /\ console = <<OtherPoolCode>>

\* The connections that are out of pool p.
LeasedOf(p) == {c \in Conns : leased[c] /\ connPool[c] = p}

C14_RollbacksMatchFailures ==
    /\ txnRun.c # Null =>
          /\ ~txnRun.released
          /\ leased[txnRun.c]
          /\ txnRun.rolled = txnRun.failed
    /\ (Done /\ InRun(call)) =>
          /\ txnRun.c = call.conn
          /\ Len(cb) = 1
          /\ call.err # NoErr => cb[1] = CbArgs(call.err, <<>>)
          /\ call.err = NoErr => cb[1].err = NoErr
          /\ Count("release") = 0
          /\ Count("rollback") = (IF call.err # NoErr THEN 1 ELSE 0)

C14_Witness ==
    /\ Done /\ InRun(call) /\ call.err = QueryErr
    /\ txnRun.c = call.conn
    /\ txnRun.failed = MaxFailures
    /\ txnRun.rolled = MaxFailures
    /\ leased[call.conn]

\* C15: rollback(conn, err) issues exactly one rollback command, on conn, when
\* conn is supplied, and no command when conn is absent; in both cases it
\* releases no connection (conn is leased after it as before), asks the pool
\* for none and invokes no callback.
C15_RollbackOnlyRollsBack ==
    (Done /\ call.op = "rollback") =>
        /\ call.conn # Null => /\ trace = <<Ev("rollback", call.conn)>>
                               /\ leased[call.conn]
                               /\ call.conn \in held
                               /\ connPool[call.conn] = call.issuer
        /\ call.conn = Null => trace = <<>>
        /\ Count("release") = 0
        /\ Count("getConnection") = 0
        /\ Count("callback") = 0
        /\ cb = <<>>

C15_Witness ==
    /\ Done /\ call.op = "rollback" /\ call.conn # Null
    /\ trace = <<Ev("rollback", call.conn)>>
    /\ pendingRb[call.conn] = 1
    /\ leased[call.conn]

\* The configuration is a structured object: null, a string, a number and
\* undefined are not.
Structured(config) == config = "plain object"

\* C16: the constructor called with a value that is not a structured object
\* fails with the configuration error, and then no pool exists and no error
\* observer is registered; called with a structured object it has created
\* exactly one pool.
C16_NonObjectConfigRejected ==
    ctorConfig # NoConfig =>
        /\ ~Structured(ctorConfig) =>
              /\ inst = "threw"
              /\ poolCount = 0
              /\ _pool = Null
              /\ observed = {}
        /\ Structured(ctorConfig) =>
              /\ inst = "ready"
              /\ poolCount = 1
              /\ _pool = 1

\* The statement's query was issued and answered without error.
Succeeded == Done /\ IsStatement /\ Count("query") = 1 /\ call.err = NoErr

\* C17: a successful insert calls back with a null error and the insert id the
\* driver reported, alone when includeAffectedRows is false, followed by the
\* affected rows the driver reported when it is true; when the driver
\* answered without data both values are false.
C17_InsertPayload ==
    (Succeeded /\ call.op = "insert") =>
        LET id == IF call.data = NoData THEN JSFalse ELSE InsertIdField(call.data)
            rows == IF call.data = NoData THEN JSFalse ELSE AffectedRowsField(call.data)
        IN  /\ Len(cb) = 1
            /\ cb[1].err = NoErr
            /\ ~call.iar => cb[1].args = <<id>>
            /\ call.iar => cb[1].args = <<id, rows>>
            /\ call.data # NoData => (id # JSFalse /\ rows # JSFalse)

C17_Witness ==
    /\ Succeeded /\ call.op = "insert" /\ call.iar /\ call.data = SomeData
    /\ cb = <<CbArgs(NoErr, <<InsertIdField(SomeData), AffectedRowsField(SomeData)>>)>>

\* C18: a successful update calls back with a null error and nothing else when
\* includeAffectedRows is false, and with the affected rows the driver
\* reported when it is true (false when the driver answered without data).
C18_UpdatePayload ==
    (Succeeded /\ call.op = "update") =>
        /\ Len(cb) = 1
        /\ cb[1].err = NoErr
        /\ ~call.iar => cb[1].args = <<>>
        /\ (call.iar /\ call.data # NoData) =>
              cb[1].args = <<AffectedRowsField(call.data)>>
        /\ (call.iar /\ call.data = NoData) => cb[1].args = <<JSFalse>>

C18_Witness ==
    /\ Succeeded /\ call.op = "update" /\ call.iar /\ call.data = SomeData
    /\ cb = <<CbArgs(NoErr, <<AffectedRowsField(SomeData)>>)>>

\* C19: a connection-lost signal replaces the pool only when it comes from
\* the current pool; delivered to the observer of a pool that an earlier
\* rebuild discarded it leaves the pool handle as it was and creates no pool;
\* and no signal creates more than one pool.
C19_StaleSignalKeepsPool ==
    (event # <<>> /\ event[1].code = ConnectionLost) =>
        /\ event[1].pool # event[1].current =>
              /\ _pool = event[1].current
              /\ poolCount = event[1].count
        /\ poolCount <= event[1].count + 1

\* C20: no operation releases a connection while a command it issued on it
\* is outstanding.  While its query, begin or commit is unanswered the
\* operation has released nothing and the connection is leased; and no
\* operation releases a connection after issuing a rollback on it, since the
\* rollback completes only in a later turn of the event loop.
C20_NoReleaseWhileOutstanding ==
    /\ call.pc \in {"query", "begin", "commit"} =>
          /\ Count("release") = 0
          /\ leased[call.c]
    /\ \A k \in 1..Len(trace) :
          trace[k].e = "release" =>
              \A j \in 1..(k - 1) : trace[j] # Ev("rollback", trace[k].c)

====
